---- MODULE Spec2Model ----
(***************************************************************************)
(* NHS call-centre dashboard (src/app.py).                                 *)
(*                                                                         *)
(* The program reads a CSV into the module-level frame `data`, attaches    *)
(* seven derived columns, and then answers render_content(tab, provider)   *)
(* callbacks.  A frame is a sequence of rows; a row is a function from     *)
(* column names to values.  Raw counts are integers.  Every value produced *)
(* by a pandas true division is a float, kept here as an exact ratio       *)
(* <<n, d>> in lowest terms with d > 0, or one of the three non-finite     *)
(* floats: <<1, 0>> = inf, <<-1, 0>> = -inf, <<0, 0>> = NaN.               *)
(***************************************************************************)
EXTENDS Integers, Sequences, FiniteSets, Bags, TLC

VARIABLES
    pc,             \* "load" before lines 11-24 have run, then "serve" or "crashed"
    columns,        \* data.columns
    data,           \* the module-level frame
    top_providers,  \* the module-level frame of line 24
    request,        \* per browser session: the Input values of its last callback
    local_frame,    \* per browser session: the local filtered_data of that call
    content         \* per browser session: the children of 'tabs-content'

vars == <<pc, columns, data, top_providers, request, local_frame, content>>

(***************************************************************************)
(* Float arithmetic as pandas / numpy perform it on the columns.           *)
(***************************************************************************)
Abs(x) == IF x < 0 THEN -x ELSE x

Sign(x) == IF x > 0 THEN 1 ELSE IF x < 0 THEN -1 ELSE 0

RECURSIVE GCD(_, _)
GCD(a, b) == IF b = 0 THEN a ELSE GCD(b, a % b)

NaN == <<0, 0>>

Inf == <<1, 0>>

NegInf == <<-1, 0>>

Zero == <<0, 1>>

IsNaN(v) == v = NaN

IsInf(v) == v[2] = 0 /\ v[1] # 0

IsFinite(v) == v[2] # 0

\* int / int with numpy semantics: x/0 is inf, -inf or NaN, never an error.
TrueDiv(x, y) ==
    IF y = 0 THEN <<Sign(x), 0>>
    ELSE LET g == GCD(Abs(x), Abs(y))
             s == IF y < 0 THEN -1 ELSE 1
         IN  <<(s * x) \div g, (s * y) \div g>>

FromInt(x) == <<x, 1>>

\* float / float
FloatDiv(a, b) ==
    IF IsNaN(a) \/ IsNaN(b) THEN NaN
    ELSE IF IsInf(b) THEN (IF IsInf(a) THEN NaN ELSE Zero)
    ELSE IF IsInf(a) THEN <<a[1] * (IF b[1] < 0 THEN -1 ELSE 1), 0>>
    ELSE TrueDiv(a[1] * b[2], a[2] * b[1])

\* float + float
FloatAdd(a, b) ==
    IF IsNaN(a) \/ IsNaN(b) THEN NaN
    ELSE IF IsInf(a) /\ IsInf(b) THEN (IF a = b THEN a ELSE NaN)
    ELSE IF IsInf(a) THEN a
    ELSE IF IsInf(b) THEN b
    ELSE TrueDiv(a[1] * b[2] + b[1] * a[2], a[2] * b[2])

\* float * int
FloatMulInt(a, k) ==
    IF IsNaN(a) THEN NaN
    ELSE IF IsInf(a) THEN <<a[1] * Sign(k), 0>>
    ELSE TrueDiv(a[1] * k, a[2])

\* a < b on floats; every comparison with NaN is false.
FloatLess(a, b) ==
    IF IsNaN(a) \/ IsNaN(b) THEN FALSE
    ELSE IF IsInf(a) THEN a = NegInf /\ b # NegInf
    ELSE IF IsInf(b) THEN b = Inf
    ELSE a[1] * b[2] < b[1] * a[2]

(***************************************************************************)
(* Series reductions.                                                      *)
(***************************************************************************)
RECURSIVE SumInt(_)
SumInt(s) == IF s = <<>> THEN 0 ELSE Head(s) + SumInt(Tail(s))

RECURSIVE SumFloat(_)
SumFloat(s) == IF s = <<>> THEN Zero ELSE FloatAdd(Head(s), SumFloat(Tail(s)))

\* Series.mean(): NaN entries are skipped, an empty series has mean NaN.
Mean(s) ==
    LET kept == SelectSeq(s, LAMBDA v : ~IsNaN(v))
    IN  FloatDiv(SumFloat(kept), FromInt(Len(kept)))

Column(frame, c) == [i \in 1..Len(frame) |-> frame[i][c]]

(***************************************************************************)
(* Frame operations.                                                       *)
(***************************************************************************)
\* The columns of dtype float64: the results of a division.
FloatColumns ==
    {"Abandonment Rate", "Cost_Per_Answered_Call", "A&E_Referral_Rate",
     "PrimaryCare_Referral_Rate", "Calls_Offered_Per_1k", "Ambulance_Dispatches_Per_1k"}

\* Whether row x sorts strictly before row y on a column: an integer column
\* (Combined_Rank) or a float column (Abandonment Rate).
SortsBefore(x, y, column, ascending) ==
    LET lo == IF ascending THEN x[column] ELSE y[column]
        hi == IF ascending THEN y[column] ELSE x[column]
    IN  IF column \in FloatColumns THEN FloatLess(lo, hi) ELSE lo < hi

\* Stable insertion of row x into an ordered frame: x goes before the first
\* row it must strictly precede.
InsertRow(x, frame, column, ascending) ==
    LET ks  == {k \in 1..Len(frame) : SortsBefore(x, frame[k], column, ascending)}
        pos == IF ks = {} THEN Len(frame) + 1 ELSE CHOOSE k \in ks : \A j \in ks : k <= j
    IN  SubSeq(frame, 1, pos - 1) \o <<x>> \o SubSeq(frame, pos, Len(frame))

\* DataFrame.sort_values on one column.  Rows with equal keys keep their
\* original relative order, for ascending and for descending sorts alike:
\* numpy's default sort is an insertion sort on arrays this short, and
\* pandas' nargsort reverses before and after it when ascending=False.
SortValues(frame, column, ascending) ==
    LET F[i \in 0..Len(frame)] ==
            IF i = 0 THEN <<>> ELSE InsertRow(frame[i], F[i - 1], column, ascending)
    IN  F[Len(frame)]

\* DataFrame.head(n)
FrameHead(frame, n) == SubSeq(frame, 1, IF Len(frame) < n THEN Len(frame) ELSE n)

\* DataFrame.drop_duplicates(c): the first row of every value of c is kept.
DropDuplicates(frame, c) ==
    LET keep(i) == \A j \in 1..(i - 1) : frame[j][c] # frame[i][c]
        F[i \in 0..Len(frame)] ==
            IF i = 0 THEN <<>>
            ELSE IF keep(i) THEN Append(F[i - 1], frame[i]) ELSE F[i - 1]
    IN  F[Len(frame)]

(***************************************************************************)
(* The CSV: column names and the rows the model reads from it.             *)
(***************************************************************************)
RequiredColumns ==
    {"Provider Name", "Nhs1 Abandoned Calls SUM", "Nhs1 Number Calls Offered SUM",
     "Nhs1 Cost Call Handlers SUM", "Nhs1 Cost Clinical Staff SUM",
     "Nhs1 Answered Calls SUM", "Nhs1 Recommend To Ae SUM",
     "Nhs1 Recommend To Primcare SUM", "Nhs1 Population SUM",
     "Nhs1 Amb Dispatches SUM", "Combined_Rank"}

ViewColumns ==
    {"Answered_60sec_Rate", "Callback_10min_Compliance", "Nhs1 Calls Through 111 SUM",
     "Ave_Wtransfer_Time_Minutes"}

DerivedColumns ==
    {"Abandonment Rate", "Total_Cost", "Cost_Per_Answered_Call", "A&E_Referral_Rate",
     "PrimaryCare_Referral_Rate", "Calls_Offered_Per_1k", "Ambulance_Dispatches_Per_1k"}

\* The two columns the heatmap tests for; a CSV may come without either.
OptionalColumns == {"Ave_Wtransfer_Time_Minutes", "Nhs1 Amb Dispatches SUM"}

\* Largest number of rows of an exhaustively enumerated CSV.
MaxRows == 2

\* Largest number of rows of a patterned long CSV, and the number of patterns.
MaxBigRows == 14

BigSeeds == 2

\* Provider names in the order Python compares strings; "All" is also the
\* dropdown's sentinel value, and "Z" is the name of no row.
NameOrder ==
    <<"A", "All", "B", "P01", "P02", "P03", "P04", "P05", "P06", "P07", "P08",
      "P09", "P10", "P11", "P12", "P13", "P14", "P15", "P16", "Z">>

SmallNames == {"A", "B", "All"}

BigName(i) == NameOrder[4 + (i % 16)]

MkRow(cols, name, p) ==
    [c \in cols |->
        CASE c = "Provider Name" -> name
          [] c = "Nhs1 Abandoned Calls SUM" -> p[1]
          [] c = "Nhs1 Number Calls Offered SUM" -> p[2]
          [] c = "Nhs1 Cost Call Handlers SUM" -> p[3]
          [] c = "Nhs1 Cost Clinical Staff SUM" -> p[4]
          [] c = "Nhs1 Answered Calls SUM" -> p[5]
          [] c = "Nhs1 Recommend To Ae SUM" -> p[6]
          [] c = "Nhs1 Recommend To Primcare SUM" -> p[7]
          [] c = "Nhs1 Population SUM" -> p[8]
          [] c = "Nhs1 Amb Dispatches SUM" -> p[9]
          [] c = "Combined_Rank" -> p[10]
          [] c = "Answered_60sec_Rate" -> p[11]
          [] c = "Callback_10min_Compliance" -> p[12]
          [] c = "Nhs1 Calls Through 111 SUM" -> p[13]
          [] c = "Ave_Wtransfer_Time_Minutes" -> p[14]]

\* Value profiles of a row, in the column order of MkRow.  The first two are
\* the providers A and B of the specification's scenario (B answers no call
\* and serves no population); the third has a 0/0 abandonment rate, a
\* negative total cost over zero answered calls and the Combined_Rank of the
\* first; the fourth is a second ordinary row.
Profiles ==
    { <<20, 100, 500, 300, 80, 8, 40, 1000, 10, 2, 90, 50, 90, 3>>,
      <<50, 50, 500, 0, 0, 0, 0, 0, 5, 1, 0, 0, 50, 9>>,
      <<0, 0, -30, 10, 0, 2, 1, 500, 0, 2, 70, 60, 0, 3>>,
      <<10, 40, 50, 10, 20, 10, 5, 2000, 4, 3, 60, 70, 30, 7>> }

\* Row i of the long CSV of pattern a: the abandonment rate is 0/0 in row 7,
\* x/0 in rows 6 and 12 and zero in row 14; rows 4 and 8 have a cost over
\* zero answered calls and row 12 has 0/0; Combined_Rank repeats.
BigProfile(i, a) ==
    <<(a * i) % 7, IF i % 6 = 0 \/ i = 7 THEN 0 ELSE 10 + (i % 4), 10 * (i % 4), i % 3,
      IF i % 4 = 0 THEN 0 ELSE 5 + (i % 4), i % 4, (a + i) % 5, 100 * (i % 3), i % 6,
      (3 * a * i + i) % 11, 50 + i, 90 - i, 3 + (i % 5), (a * i * i) % 9>>

CsvColumnSets == {(RequiredColumns \cup ViewColumns) \ X : X \in SUBSET OptionalColumns}

SmallCsv(cols) ==
    UNION {[1..n -> {MkRow(cols, name, p) : name \in SmallNames, p \in Profiles}] : n \in 0..MaxRows}

\* Long CSVs: every row its own provider when a is odd, three providers in
\* turn when a is even.
BigCsv(cols) ==
    {[i \in 1..n |-> MkRow(cols, BigName(IF a % 2 = 0 THEN i % 3 ELSE i), BigProfile(i, a))] :
        n \in 9..MaxBigRows, a \in 1..BigSeeds}

(***************************************************************************)
(* Load time: the derived columns of lines 11-21.                          *)
(***************************************************************************)
Abandonment_Rate(row) ==
    TrueDiv(row["Nhs1 Abandoned Calls SUM"], row["Nhs1 Number Calls Offered SUM"])

Total_Cost(row) == row["Nhs1 Cost Call Handlers SUM"] + row["Nhs1 Cost Clinical Staff SUM"]

\* .replace([np.inf, -np.inf], 0).fillna(0)
ReplaceInfFillNa(v) == IF IsFinite(v) THEN v ELSE Zero

\* Variant: .fillna(0) without the .replace of the infinities.
CostPerAnsweredCallFillNaOnly(row) ==
    LET q == TrueDiv(Total_Cost(row), row["Nhs1 Answered Calls SUM"])
    IN  IF IsNaN(q) THEN Zero ELSE q

Cost_Per_Answered_Call(row) ==
    ReplaceInfFillNa(TrueDiv(Total_Cost(row), row["Nhs1 Answered Calls SUM"]))

AE_Referral_Rate(row) ==
    TrueDiv(row["Nhs1 Recommend To Ae SUM"], row["Nhs1 Answered Calls SUM"])

PrimaryCare_Referral_Rate(row) ==
    TrueDiv(row["Nhs1 Recommend To Primcare SUM"], row["Nhs1 Answered Calls SUM"])

Calls_Offered_Per_1k(row) ==
    FloatDiv(FromInt(row["Nhs1 Number Calls Offered SUM"]),
             TrueDiv(row["Nhs1 Population SUM"], 1000))

Ambulance_Dispatches_Per_1k(row) ==
    FloatDiv(FromInt(row["Nhs1 Amb Dispatches SUM"]),
             TrueDiv(row["Nhs1 Population SUM"], 1000))

AddCalculatedColumns(row) ==
    row @@ ("Abandonment Rate" :> Abandonment_Rate(row))
        @@ ("Total_Cost" :> Total_Cost(row))
        @@ ("Cost_Per_Answered_Call" :> Cost_Per_Answered_Call(row))
        @@ ("A&E_Referral_Rate" :> AE_Referral_Rate(row))
        @@ ("PrimaryCare_Referral_Rate" :> PrimaryCare_Referral_Rate(row))
        @@ ("Calls_Offered_Per_1k" :> Calls_Offered_Per_1k(row))
        @@ ("Ambulance_Dispatches_Per_1k" :> Ambulance_Dispatches_Per_1k(row))

\* Variant: head(10) of the table as read, without the sort.
TopProvidersUnsorted(frame) == FrameHead(frame, 10)

\* data.sort_values('Combined_Rank').head(10), at line 24 and again at line 231
TopProviders(frame) == FrameHead(SortValues(frame, "Combined_Rank", TRUE), 10)

None == [kind |-> "None"]

\* Browser sessions served by the one process.
Users == {"u1", "u2"}

\* The state after pd.read_csv: the raw frame, nothing derived, nothing shown.
Init ==
    /\ pc = "load"
    /\ columns \in CsvColumnSets
    /\ data \in SmallCsv(columns) \cup BigCsv(columns)
    /\ top_providers = <<>>
    /\ request = [u \in Users |-> None]
    /\ local_frame = [u \in Users |-> <<>>]
    /\ content = [u \in Users |-> None]

\* Lines 11-24 on a CSV that has every column they index.
LoadData ==
    /\ pc = "load"
    /\ RequiredColumns \subseteq columns
    /\ pc' = "serve"
    /\ columns' = columns \cup DerivedColumns
    /\ data' = [i \in 1..Len(data) |-> AddCalculatedColumns(data[i])]
    /\ top_providers' = TopProviders(data')
    /\ UNCHANGED <<request, local_frame, content>>

\* Line 21 raises KeyError on a CSV without the ambulance-dispatch column:
\* the process ends before the server starts.
LoadFails ==
    /\ pc = "load"
    /\ ~(RequiredColumns \subseteq columns)
    /\ pc' = "crashed"
    /\ UNCHANGED <<columns, data, top_providers, request, local_frame, content>>

(***************************************************************************)
(* render_content: the filter step and the presentation builders.          *)
(***************************************************************************)
Tabs ==
    {"tab-summary", "tab-table", "tab-graph", "tab-heatmap", "tab-pie", "tab-bar",
     "tab-scatter", "tab-bar1"}

NamesOf(frame) == {frame[i]["Provider Name"] : i \in 1..Len(frame)}

\* The dropdown offers 'All' and every name of the frame; a callback request
\* may also carry a name of no row.
Selectors(frame) == {"All", "Z"} \cup NamesOf(frame)

\* Variant: the mask is written with != for ==.
FilterDataOtherProviders(frame, selected_provider) ==
    IF selected_provider = "All" THEN frame
    ELSE SelectSeq(frame, LAMBDA row : row["Provider Name"] # selected_provider)

\* Lines 103-106 (and again 208-211, 253)
FilterData(frame, selected_provider) ==
    IF selected_provider = "All" THEN frame
    ELSE SelectSeq(frame, LAMBDA row : row["Provider Name"] = selected_provider)

Loading(type, children) == [kind |-> "Loading", type |-> type, children |-> children]

Graph(figure) == [kind |-> "Graph", figure |-> figure]

\* tab-table
DataTableView(filtered_data) ==
    Loading("default", [kind |-> "DataTable", data |-> filtered_data])

\* data.groupby('Provider Name').agg(sum).reset_index(): one row per name, in
\* sorted name order.
GroupBySum(frame) ==
    LET names == SelectSeq(NameOrder, LAMBDA n : n \in NamesOf(frame))
        grp(n) == SelectSeq(frame, LAMBDA row : row["Provider Name"] = n)
    IN  [k \in 1..Len(names) |->
            [c \in {"Provider Name", "Nhs1 Recommend To Ae SUM",
                    "Nhs1 Recommend To Primcare SUM", "Nhs1 Answered Calls SUM"} |->
                IF c = "Provider Name" THEN names[k] ELSE SumInt(Column(grp(names[k]), c))]]

\* filtered_data.agg(sum) over the three count columns
AggSum(frame) ==
    [c \in {"Nhs1 Recommend To Ae SUM", "Nhs1 Recommend To Primcare SUM",
            "Nhs1 Answered Calls SUM"} |-> SumInt(Column(frame, c))]

\* provider_stats.melt(...): every provider's A&E rate, then every
\* provider's primary-care rate.
Melt(provider_stats) ==
    LET n == Len(provider_stats)
        long(i, var) ==
            [c \in {"Provider Name", "Referral Type", "Rate"} |->
                CASE c = "Provider Name" -> provider_stats[i]["Provider Name"]
                  [] c = "Referral Type" -> var
                  [] c = "Rate" -> TrueDiv(
                        provider_stats[i][IF var = "A&E_Referral_Rate"
                                          THEN "Nhs1 Recommend To Ae SUM"
                                          ELSE "Nhs1 Recommend To Primcare SUM"],
                        provider_stats[i]["Nhs1 Answered Calls SUM"])]
    IN  [k \in 1..(2 * n) |->
            IF k <= n THEN long(k, "A&E_Referral_Rate")
            ELSE long(k - n, "PrimaryCare_Referral_Rate")]

\* Variant: the filtered branch averages the per-row rate columns.
ReferralBarMeanOfRowRates(frame, filtered_data, selected_provider) ==
    IF selected_provider = "All"
    THEN Loading("circle", Graph(
            [type |-> "bar", title |-> <<"Referral Analysis Across All Providers">>,
             frame |-> Melt(GroupBySum(frame)), x |-> "Provider Name", y |-> "Rate",
             xaxis_title |-> "Provider Name", xaxis_tickangle |-> 45]))
    ELSE Loading("circle", Graph(
            [type |-> "bar", title |-> <<"Referral Analysis for ", selected_provider>>,
             x |-> <<"A&E Referral Rate", "Primary Care Referral Rate">>,
             y |-> <<Mean(Column(filtered_data, "A&E_Referral_Rate")),
                     Mean(Column(filtered_data, "PrimaryCare_Referral_Rate"))>>,
             xaxis_title |-> "Referral Type", xaxis_tickangle |-> 0]))

\* tab-bar
ReferralBar(frame, filtered_data, selected_provider) ==
    IF selected_provider = "All"
    THEN Loading("circle", Graph(
            [type |-> "bar", title |-> <<"Referral Analysis Across All Providers">>,
             frame |-> Melt(GroupBySum(frame)), x |-> "Provider Name", y |-> "Rate",
             xaxis_title |-> "Provider Name", xaxis_tickangle |-> 45]))
    ELSE LET provider_stats == AggSum(filtered_data)
             a_e_rate == TrueDiv(provider_stats["Nhs1 Recommend To Ae SUM"],
                                 provider_stats["Nhs1 Answered Calls SUM"])
             primary_rate == TrueDiv(provider_stats["Nhs1 Recommend To Primcare SUM"],
                                     provider_stats["Nhs1 Answered Calls SUM"])
         IN  Loading("circle", Graph(
                [type |-> "bar", title |-> <<"Referral Analysis for ", selected_provider>>,
                 x |-> <<"A&E Referral Rate", "Primary Care Referral Rate">>,
                 y |-> <<a_e_rate, primary_rate>>,
                 xaxis_title |-> "Referral Type", xaxis_tickangle |-> 0]))

\* Pearson's r of two integer series as DataFrame.corr() computes it, kept
\* exact as <<sign of r, r squared>>; NaN when either series has no variance
\* (fewer than two rows included).
Pearson(xs, ys) ==
    LET n   == Len(xs)
        sx  == SumInt(xs)
        sy  == SumInt(ys)
        cov == n * SumInt([i \in 1..n |-> xs[i] * ys[i]]) - sx * sy
        vx  == n * SumInt([i \in 1..n |-> xs[i] * xs[i]]) - sx * sx
        vy  == n * SumInt([i \in 1..n |-> ys[i] * ys[i]]) - sy * sy
    IN  IF vx * vy = 0 THEN <<0, NaN>> ELSE <<Sign(cov), TrueDiv(cov * cov, vx * vy)>>

\* Variant: only the ambulance-dispatch column is tested for; indexing the
\* absent transfer-time column then raises KeyError out of the callback.
CorrelationHeatmapOneTest(cols, filtered_data, selected_provider) ==
    IF "Nhs1 Amb Dispatches SUM" \in cols
    THEN IF "Ave_Wtransfer_Time_Minutes" \in cols
         THEN Loading("circle", Graph([type |-> "imshow"]))
         ELSE [kind |-> "Raised", error |-> "KeyError"]
    ELSE [kind |-> "Div",
          children |-> <<"Error: Missing necessary columns for correlation analysis.">>]

\* tab-heatmap
CorrelationHeatmap(cols, filtered_data, selected_provider) ==
    IF "Ave_Wtransfer_Time_Minutes" \in cols /\ "Nhs1 Amb Dispatches SUM" \in cols
    THEN LET t == Column(filtered_data, "Ave_Wtransfer_Time_Minutes")
             d == Column(filtered_data, "Nhs1 Amb Dispatches SUM")
         IN  Loading("circle", Graph(
                [type |-> "imshow",
                 title |-> IF selected_provider # "All"
                           THEN <<"Correlation Analysis for ", selected_provider>>
                           ELSE <<"Correlation Analysis Across All Providers">>,
                 corr |-> <<<<Pearson(t, t), Pearson(t, d)>>,
                            <<Pearson(d, t), Pearson(d, d)>>>>]))
    ELSE [kind |-> "Div",
          children |-> <<"Error: Missing necessary columns for correlation analysis.">>]

\* Variant: no drop_duplicates('Provider Name').
Top10AbandonWithRepeats(frame) ==
    LET present  == SelectSeq(frame, LAMBDA row : ~IsNaN(row["Abandonment Rate"]))
        positive == SelectSeq(present, LAMBDA row : FloatLess(Zero, row["Abandonment Rate"]))
    IN  FrameHead(SortValues(positive, "Abandonment Rate", FALSE), 10)

\* Lines 186-188
Top10Abandon(frame) ==
    LET present  == SelectSeq(frame, LAMBDA row : ~IsNaN(row["Abandonment Rate"]))
        positive == SelectSeq(present, LAMBDA row : FloatLess(Zero, row["Abandonment Rate"]))
    IN  FrameHead(DropDuplicates(SortValues(positive, "Abandonment Rate", FALSE), "Provider Name"), 10)

\* tab-pie
AbandonmentPie(frame, filtered_data, selected_provider) ==
    IF selected_provider = "All"
    THEN LET top10_abandon == Top10Abandon(frame)
         IN  Loading("circle", Graph(
                [type |-> "pie", title |-> <<"Top 10 Providers with Highest Abandonment Rate">>,
                 frame |-> top10_abandon,
                 names |-> Column(top10_abandon, "Provider Name"),
                 values |-> Column(top10_abandon, "Abandonment Rate"),
                 pull |-> [i \in 1..Len(top10_abandon) |-> IF i = 1 THEN <<1, 10>> ELSE Zero]]))
    ELSE Loading("circle", Graph(
            [type |-> "pie", title |-> <<"Call Outcomes for ", selected_provider>>,
             names |-> <<"Abandoned Calls", "Answered Calls">>,
             values |-> <<SumInt(Column(filtered_data, "Nhs1 Abandoned Calls SUM")),
                          SumInt(Column(filtered_data, "Nhs1 Answered Calls SUM"))>>]))

\* tab-scatter: the subset is computed a second time, into the local name.
CallsScatter(frame, selected_provider) ==
    LET filtered_data == FilterData(frame, selected_provider)
    IN  Loading("circle", Graph(
            [type |-> "scatter",
             title |-> IF selected_provider = "All"
                       THEN <<"Calls Offered vs. Ambulance Dispatches (Per 1,000 Residents)">>
                       ELSE <<"Call Analysis for ", selected_provider>>,
             frame |-> filtered_data,
             x |-> Column(filtered_data, "Calls_Offered_Per_1k"),
             y |-> Column(filtered_data, "Ambulance_Dispatches_Per_1k"),
             size |-> Column(filtered_data, "Nhs1 Population SUM"),
             color |-> IF selected_provider = "All"
                       THEN Column(filtered_data, "Provider Name") ELSE <<>>,
             showlegend |-> (selected_provider = "All")]))

\* Lines 230-231 and 253: the rows the performance bars are drawn from.
PerformanceRows(frame, selected_provider) ==
    IF selected_provider = "All" THEN TopProviders(frame)
    ELSE FilterData(frame, selected_provider)

\* tab-bar1
PerformanceBar(frame, selected_provider) ==
    LET rows == PerformanceRows(frame, selected_provider)
    IN  Loading("circle", [kind |-> "Div", children |-> <<Graph(
            [type |-> "bar",
             title |-> IF selected_provider = "All"
                       THEN <<"Top 10 Providers by Performance (Combined KPIs)">>
                       ELSE <<"Performance KPIs for ", selected_provider>>,
             frame |-> rows,
             x |-> Column(rows, "Provider Name"),
             y |-> <<Column(rows, "Answered_60sec_Rate"),
                     Column(rows, "Callback_10min_Compliance")>>,
             barmode |-> "group"])>>])

\* Variant: the else branch reads `data` like the 'All' branch.
SummaryFrameWholeTable(frame, filtered_data, selected_provider) == frame

\* Lines 279-292: the frame the six aggregates are taken over.
SummaryFrame(frame, filtered_data, selected_provider) ==
    IF selected_provider = "All" THEN frame ELSE filtered_data

summary_card(title, value, format) ==
    [kind |-> "Card", title |-> title, value |-> value, format |-> format]

\* tab-summary.  A card carries the aggregate and the format specification
\* it is printed with.
SummaryCards(frame, filtered_data, selected_provider) ==
    LET src == SummaryFrame(frame, filtered_data, selected_provider)
        total_calls == SumInt(Column(src, "Nhs1 Number Calls Offered SUM"))
        abandon_rate == FloatMulInt(Mean(Column(src, "Abandonment Rate")), 100)
        total_cost == SumInt(Column(src, "Total_Cost"))
        avg_cost == Mean(Column(src, "Cost_Per_Answered_Call"))
        total_calls_through_111 == SumInt(Column(src, "Nhs1 Calls Through 111 SUM"))
        total_population == SumInt(Column(src, "Nhs1 Population SUM"))
    IN  [kind |-> "Row", children |->
            <<summary_card("Total Calls Offered", total_calls, ","),
              summary_card("Average Abandonment Rate", abandon_rate, ".1f"),
              summary_card("Total Cost", total_cost, ",.2f"),
              summary_card("Avg Cost per Answered Call", avg_cost, ".2f"),
              summary_card("Total Calls Through NHS 111", total_calls_through_111, ","),
              summary_card("Total Caller Population", total_population, ",")>>]

\* The if/elif chain of lines 113-301.  It has no branch for 'tab-graph' and
\* no else: such a call runs off the end of the function and returns None.
Dispatch(tab, selected_provider, frame, cols) ==
    LET filtered_data == FilterData(frame, selected_provider)
    IN  CASE tab = "tab-table" -> DataTableView(filtered_data)
          [] tab = "tab-bar" -> ReferralBar(frame, filtered_data, selected_provider)
          [] tab = "tab-heatmap" -> CorrelationHeatmap(cols, filtered_data, selected_provider)
          [] tab = "tab-pie" -> AbandonmentPie(frame, filtered_data, selected_provider)
          [] tab = "tab-scatter" -> CallsScatter(frame, selected_provider)
          [] tab = "tab-bar1" -> PerformanceBar(frame, selected_provider)
          [] tab = "tab-summary" -> SummaryCards(frame, filtered_data, selected_provider)
          [] OTHER -> None

\* Variant: line 231 sorts with inplace=True.
DataAfterCallSortedInPlace(tab, selected_provider) ==
    IF tab = "tab-bar1" /\ selected_provider = "All" THEN SortValues(data, "Combined_Rank", TRUE) ELSE data

\* Variant: lines 209-211 rebind the module-level name (global data).
DataAfterCallRebound(tab, selected_provider) ==
    IF tab = "tab-scatter" THEN FilterData(data, selected_provider) ELSE data

\* The module-level frame after a call.  No statement of render_content
\* assigns to `data` or changes it in place: it is copied (104, 106, 209,
\* 211), indexed by a mask (253), grouped (126) or passed through dropna,
\* sort_values and drop_duplicates without inplace=True (186-188, 231).
DataAfterCall(tab, selected_provider) == data

\* One callback invocation of session u, from the Inputs to the Output
\* 'tabs-content'.
render_content(u, tab, selected_provider) ==
    /\ pc = "serve"
    /\ request' = [request EXCEPT ![u] = [tab |-> tab, selected_provider |-> selected_provider]]
    /\ local_frame' = [local_frame EXCEPT ![u] = FilterData(data, selected_provider)]
    /\ content' = [content EXCEPT ![u] = Dispatch(tab, selected_provider, data, columns)]
    /\ data' = DataAfterCall(tab, selected_provider)
    /\ UNCHANGED <<pc, columns, top_providers>>

\* One browser session.
Next ==
    \/ LoadData
    \/ LoadFails
    \/ \E tab \in Tabs, selected_provider \in Selectors(data) :
          render_content("u1", tab, selected_provider)

Spec == Init /\ [][Next]_vars

\* Two browser sessions whose callbacks interleave, over the CSVs of the
\* specification's two-provider scenario.
MaxUserRows == 2

UserCsv(cols) ==
    UNION {[1..n -> {MkRow(cols, "A", <<20, 100, 500, 300, 80, 8, 40, 1000, 10, 2, 90, 50, 90, 3>>),
                     MkRow(cols, "B", <<50, 50, 500, 0, 0, 0, 0, 0, 5, 1, 0, 0, 50, 9>>),
                     MkRow(cols, "A", <<10, 40, 50, 10, 20, 10, 5, 2000, 4, 3, 60, 70, 30, 7>>)}] :
           n \in 0..MaxUserRows}

InitUsers ==
    /\ pc = "load"
    /\ columns = RequiredColumns \cup ViewColumns
    /\ data \in UserCsv(columns)
    /\ top_providers = <<>>
    /\ request = [u \in Users |-> None]
    /\ local_frame = [u \in Users |-> <<>>]
    /\ content = [u \in Users |-> None]

NextUsers ==
    \/ LoadData
    \/ \E u \in Users, tab \in Tabs, selected_provider \in Selectors(data) :
          render_content(u, tab, selected_provider)

SpecUsers == InitUsers /\ [][NextUsers]_vars

(***************************************************************************)
(* Properties.  The expected row sets are written over row positions of    *)
(* the base table, independently of the frame operators above.             *)
(***************************************************************************)
Called(u) == pc = "serve" /\ request[u] # None

Asked(u, tab) == Called(u) /\ request[u].tab = tab

Positions == 1..Len(data)

PositionsNamed(name) == {i \in Positions : data[i]["Provider Name"] = name}

\* The rows at the positions of S, in table order.
RowsAt(S) ==
    [k \in 1..Cardinality(S) |->
        data[CHOOSE i \in S : Cardinality({j \in S : j <= i}) = k]]

RECURSIVE SumOver(_, _)
SumOver(S, c) ==
    IF S = {} THEN 0
    ELSE LET i == CHOOSE j \in S : TRUE IN data[i][c] + SumOver(S \ {i}, c)

BagOfRows(frame) ==
    [row \in {frame[i] : i \in 1..Len(frame)} |-> Cardinality({i \in 1..Len(frame) : frame[i] = row})]

Figure(u) == content[u].children.figure

\* C1: after any call, the filtered subset is the whole base table when the
\* selector is 'All'; otherwise it is exactly the rows named like the
\* selector, in table order: non-empty with every name equal to the selector
\* when the name occurs in the table, and empty (the call still completing)
\* when it occurs in no row.
FilterReturnsExactlyTheProvidersRows ==
    \A u \in Users : Called(u) =>
        LET sel  == request[u].selected_provider
            rows == local_frame[u]
        IN  IF sel = "All"
            THEN Len(rows) = Len(data) /\ rows = data
            ELSE /\ rows = RowsAt(PositionsNamed(sel))
                 /\ \A k \in 1..Len(rows) : rows[k]["Provider Name"] = sel
                 /\ (PositionsNamed(sel) # {}) => Len(rows) > 0
                 /\ (PositionsNamed(sel) = {}) => rows = <<>>

FilterKeptOneRowOfTwo ==
    /\ Called("u1")
    /\ request["u1"].selected_provider = "A"
    /\ Len(local_frame["u1"]) = 1
    /\ Len(data) = 2

\* C2: every call for one of the eight selectable views returns an artifact,
\* never None.
EverySelectableViewReturnsAnArtifact ==
    \A u \in Users : (Called(u) /\ request[u].tab \in Tabs) => content[u] # None

\* C3: once the derived columns exist, every row has Total_Cost equal to the
\* sum of its two cost columns; a row with Answered Calls > 0 has
\* Cost_Per_Answered_Call = Total_Cost / Answered Calls, and a row with
\* Answered Calls = 0 has Cost_Per_Answered_Call = 0, a finite value.
CostPerAnsweredCallIsQuotientOrZero ==
    pc = "serve" =>
        \A i \in Positions :
            LET row      == data[i]
                answered == row["Nhs1 Answered Calls SUM"]
                cost     == row["Nhs1 Cost Call Handlers SUM"] + row["Nhs1 Cost Clinical Staff SUM"]
                q        == row["Cost_Per_Answered_Call"]
            IN  /\ row["Total_Cost"] = cost
                /\ answered > 0 => (q[2] > 0 /\ q[1] * answered = cost * q[2])
                /\ answered = 0 => q = <<0, 1>>

CostDerivedWithAndWithoutAnsweredCalls ==
    /\ pc = "serve"
    /\ \E i \in Positions : data[i]["Nhs1 Answered Calls SUM"] = 0 /\ data[i]["Total_Cost"] < 0
    /\ \E i \in Positions : data[i]["Nhs1 Answered Calls SUM"] > 0 /\ data[i]["Total_Cost"] > 0

\* C4: the rows of the unfiltered abandonment pie are at most 10 rows of the
\* base table, with pairwise distinct Provider Names, each with a rate that
\* is present and > 0, in descending order of rate.
AbandonmentPieTopTen ==
    \A u \in Users : (Asked(u, "tab-pie") /\ request[u].selected_provider = "All") =>
        LET rows == Figure(u).frame
            rate(k) == rows[k]["Abandonment Rate"]
        IN  /\ Len(rows) <= 10
            /\ \A k \in 1..Len(rows) : \E i \in Positions : data[i] = rows[k]
            /\ \A j, k \in 1..Len(rows) :
                  j # k => rows[j]["Provider Name"] # rows[k]["Provider Name"]
            /\ \A k \in 1..Len(rows) :
                  rate(k) # <<0, 0>> /\ (rate(k)[1] > 0)
            /\ \A j, k \in 1..Len(rows) :
                  j < k => rate(j)[1] * rate(k)[2] >= rate(k)[1] * rate(j)[2]

PieCutToTenOfMoreProviders ==
    /\ Asked("u1", "tab-pie")
    /\ request["u1"].selected_provider = "All"
    /\ Len(Figure("u1").frame) = 10
    /\ Cardinality({data[i]["Provider Name"] : i \in
          {j \in Positions : data[j]["Nhs1 Abandoned Calls SUM"] > 0}}) > 10
    /\ \E i \in Positions : data[i]["Abandonment Rate"] = <<0, 0>>

\* C5: the rows of the unfiltered top-10 performance chart are exactly
\* min(10, N) rows of the N-row base table, in ascending order of
\* Combined_Rank, no row left out has a smaller rank than a row taken, and
\* rows sharing a Provider Name are all kept.
TopTenByCombinedRank ==
    \A u \in Users : (Asked(u, "tab-bar1") /\ request[u].selected_provider = "All") =>
        LET rows == content[u].children.children[1].figure.frame
            left == BagOfRows(data) (-) BagOfRows(rows)
        IN  /\ Len(rows) = (IF Len(data) < 10 THEN Len(data) ELSE 10)
            /\ BagOfRows(rows) \sqsubseteq BagOfRows(data)
            /\ \A j, k \in 1..Len(rows) :
                  j < k => rows[j]["Combined_Rank"] <= rows[k]["Combined_Rank"]
            /\ \A out \in BagToSet(left) : \A k \in 1..Len(rows) :
                  out["Combined_Rank"] >= rows[k]["Combined_Rank"]

TopTenCutWithRepeatedProvider ==
    /\ Asked("u1", "tab-bar1")
    /\ request["u1"].selected_provider = "All"
    /\ Len(data) > 10
    /\ LET rows == content["u1"].children.children[1].figure.frame
       IN  /\ Len(rows) = 10
           /\ \E j, k \in 1..10 : j # k /\ rows[j]["Provider Name"] = rows[k]["Provider Name"]
           /\ rows # SubSeq(data, 1, 10)

\* C6: the six aggregates of the summary cards are taken over the rows named
\* like the selected provider when a provider is selected, and over every
\* row of the base table when the selector is 'All'.
SummaryAggregatesOverSelectedRows ==
    \A u \in Users : Asked(u, "tab-summary") =>
        LET sel   == request[u].selected_provider
            S     == IF sel = "All" THEN Positions ELSE PositionsNamed(sel)
            cards == content[u].children
        IN  /\ cards[1].value = SumOver(S, "Nhs1 Number Calls Offered SUM")
            /\ cards[2].value = FloatMulInt(Mean(Column(RowsAt(S), "Abandonment Rate")), 100)
            /\ cards[3].value = SumOver(S, "Total_Cost")
            /\ cards[4].value = Mean(Column(RowsAt(S), "Cost_Per_Answered_Call"))
            /\ cards[5].value = SumOver(S, "Nhs1 Calls Through 111 SUM")
            /\ cards[6].value = SumOver(S, "Nhs1 Population SUM")

\* The specification's scenario: provider A offers 100 calls, the table 150.
SummaryOfProviderAIsHundredCalls ==
    /\ Asked("u1", "tab-summary")
    /\ request["u1"].selected_provider = "A"
    /\ content["u1"].children[1].value = 100
    /\ SumOver(Positions, "Nhs1 Number Calls Offered SUM") = 150

\* C7: once the derived columns exist, no step changes the base table or its
\* columns, whichever view and provider a call is made with.
BaseTableNeverChanges == [][pc = "serve" => (data' = data /\ columns' = columns)]_vars

ScatterCallReturned ==
    /\ Asked("u1", "tab-scatter")
    /\ request["u1"].selected_provider = "B"
    /\ Len(local_frame["u1"]) < Len(data)
    /\ Len(data) > 1

\* C8: two sessions whose last calls carry the same view and provider hold
\* the same artifact, whatever calls either made before.
SameRequestSameArtifact ==
    \A u, v \in Users :
        (Called(u) /\ Called(v) /\ request[u] = request[v]) => content[u] = content[v]

TwoSessionsShowTheSameTable ==
    /\ Called("u1")
    /\ request["u1"] = [tab |-> "tab-table", selected_provider |-> "All"]
    /\ request["u2"] = request["u1"]
    /\ Len(data) = 2
    /\ data[1]["Combined_Rank"] > data[2]["Combined_Rank"]

\* C9: a heatmap call on a table without the transfer-time column or without
\* the ambulance-dispatch column returns the missing-columns text; it
\* returns a chart only when both columns exist.
HeatmapWithoutColumnsIsErrorText ==
    \A u \in Users : Asked(u, "tab-heatmap") =>
        LET both == {"Ave_Wtransfer_Time_Minutes", "Nhs1 Amb Dispatches SUM"} \subseteq columns
        IN  /\ ~both => content[u] =
                  [kind |-> "Div",
                   children |-> <<"Error: Missing necessary columns for correlation analysis.">>]
            /\ content[u].kind = "Loading" => both

HeatmapWithoutTransferTime ==
    /\ Asked("u1", "tab-heatmap")
    /\ "Ave_Wtransfer_Time_Minutes" \notin columns
    /\ content["u1"].kind = "Div"
    /\ Len(data) > 0

\* C10: the referral chart shows, for every provider of the table when the
\* selector is 'All' and for the selected provider otherwise, the sum of
\* A&E (primary-care) referrals of that provider's rows divided by the sum
\* of their answered calls; so both modes show the same two rates for a
\* provider.
ReferralRatesAreRatiosOfSums ==
    \A u \in Users : Asked(u, "tab-bar") =>
        LET sel == request[u].selected_provider
            ae(P)   == TrueDiv(SumOver(PositionsNamed(P), "Nhs1 Recommend To Ae SUM"),
                               SumOver(PositionsNamed(P), "Nhs1 Answered Calls SUM"))
            prim(P) == TrueDiv(SumOver(PositionsNamed(P), "Nhs1 Recommend To Primcare SUM"),
                               SumOver(PositionsNamed(P), "Nhs1 Answered Calls SUM"))
            long    == Figure(u).frame
            bars(P, type) == {k \in 1..Len(long) :
                                long[k]["Provider Name"] = P /\ long[k]["Referral Type"] = type}
        IN  IF sel = "All"
            THEN /\ Len(long) = 2 * Cardinality(NamesOf(data))
                 /\ \A P \in NamesOf(data) :
                      /\ Cardinality(bars(P, "A&E_Referral_Rate")) = 1
                      /\ Cardinality(bars(P, "PrimaryCare_Referral_Rate")) = 1
                      /\ \A k \in bars(P, "A&E_Referral_Rate") : long[k]["Rate"] = ae(P)
                      /\ \A k \in bars(P, "PrimaryCare_Referral_Rate") : long[k]["Rate"] = prim(P)
            ELSE Figure(u).y = <<ae(sel), prim(sel)>>

\* A provider with two rows whose mean per-row A&E rate is not its ratio of
\* sums, shown on its own.
ReferralOfProviderWithTwoRows ==
    /\ Asked("u1", "tab-bar")
    /\ request["u1"].selected_provider = "A"
    /\ Len(local_frame["u1"]) = 2
    /\ Figure("u1").y[1] # Mean(Column(local_frame["u1"], "A&E_Referral_Rate"))
    /\ Figure("u1").y[1][2] # 0

====
